---- MODULE Spec2Model ----
(***************************************************************************)
(* The repurchase-probability pipelines of ClickBusPredictions:           *)
(*   predict_client_repurchase.py  (variant "client")                      *)
(*   predict_repurchase_route.py   (variant "route")                       *)
(* Both are straight-line scripts; pc walks through their numbered         *)
(* sections.  The specifications share the actions:                        *)
(*   SpecSample    section 1, the sample drawn from the unique e-mails     *)
(*   Spec          sections 2-5, from the CSV rows of the second pass      *)
(*   SpecIngest    section 2 alone, for any chunk size                     *)
(*   SpecFeatures  section 2's sort onwards, from the concatenated table   *)
(*   SpecCapRare   cap_rare on a label column                              *)
(*   SpecExport    sections 6-8, from the modeling table to the file       *)
(*   SpecRun       a whole run, first pass to written file                 *)
(*                                                                         *)
(* Cells.  A string cell (e-mail, city) is a positive number, ordered as   *)
(* the strings are; a timestamp is a number of ticks since the first day,  *)
(* TicksPerDay ticks a day; an amount is a natural number.  NA is pandas'  *)
(* NaN / NaT / None, in whatever column.  A rational (a mean, a frequency) *)
(* is a record [num, den], den = 0 standing for NaN.                       *)
(***************************************************************************)
EXTENDS Integers, Sequences, FiniteSets, TLC

\* ------------------------------------------------------------- bounds
MaxSrcRows == 3
MaxRows == 3
MaxClients == 506
MaxRot == 2
MaxSeries == 4
MaxExportRows == 5
TicksPerDay == 2

\* ------------------------------------------------- program constants
MinSample == 500
Censored == 9999
CHUNKSIZE == 200000

NA == -1000000
Malformed == -2000000
NanStr == 0

Variants == {"client", "route"}
Emails == {1, 2}
Cities == {1, 2}
\* <<DATA_COMPRA, HORA_COMPRA>> cells of a source row.
SrcWhen == {<<NA, NA>>, <<Malformed, 0>>, <<0, 1>>, <<1, 0>>}
\* DATA_HORA_COMPRA values of a table row, in ticks.
Times == {NA, 0, 3}
Amounts == {NA, 2}
ChunkSizes == {1, 2, CHUNKSIZE}
SampleFracs == {50, 99, 100}

Min(a, b) == IF a < b THEN a ELSE b
Max(a, b) == IF a > b THEN a ELSE b
Range(s) == {s[i] : i \in 1..Len(s)}
SeqsUpTo(S, n) == UNION {[1..k -> S] : k \in 0..n}

VARIABLES variant, src, chunksize, pos, parts, df, df_model, pc, error,
          n_clients, frac, sample_n, sample_clients, sample_set,
          series, top_n, capped, cph, df_export, output

\* The argument and the result of cap_rare.
capVars == <<series, top_n, capped>>

\* The fitted model, the table to export and the files written.
exportVars == <<cph, df_export, output>>

vars == <<variant, src, chunksize, pos, parts, df, df_model, pc, error,
          n_clients, frac, sample_n, sample_clients, sample_set,
          capVars, exportVars>>

\* ------------------------------------------------ section 1: sampling
\* unique_emails after dropna().drop_duplicates(): n_clients distinct strings.
unique_emails == [i \in 1..n_clients |-> i]

\* int(SAMPLE_FRAC * n_clients), SAMPLE_FRAC given in hundredths.
IntTrunc(f, n) == (f * n) \div 100

\* round(f * N) as Python rounds: to nearest, halves to even. The script
\* does not call it; the claimed sample size does.
Round(f, n) ==
  LET q == (f * n) \div 100
      r == (f * n) % 100
  IN IF r > 50 THEN q + 1
     ELSE IF r < 50 THEN q
     ELSE q + (q % 2)

\* A sample size that rounds where the script cuts.
SampleSizeRounded(f, n) == Max(MinSample, Round(f, n))

SampleSize(f, n) == Max(MinSample, IntTrunc(f, n))

\* Series.sample(n, random_state): n entries of s, none twice. The seed fixes
\* one permutation; which one is not the script's business, so r picks it.
Draw(s, n, r) == [i \in 1..n |-> s[((r + i - 1) % Len(s)) + 1]]

\* pandas refuses a sample larger than the population when replace=False.
SampleRaises(n, population) == n > population

\* The first pass over the file (lines 49-55): read_csv raises when PATH is
\* not there; otherwise the distinct e-mails are counted.
PassOne ==
  /\ pc = "start"
  /\ \E found \in BOOLEAN :
       IF found
         THEN /\ n_clients' \in 0..MaxClients
              /\ pc' = "sample"
              /\ UNCHANGED error
         ELSE /\ pc' = "failed"
              /\ error' = "FileNotFoundError"
              /\ UNCHANGED n_clients
  /\ UNCHANGED <<variant, src, chunksize, pos, parts, df, df_model,
                 frac, sample_n, sample_clients, sample_set, capVars, exportVars>>

Sample ==
  /\ pc = "sample"
  /\ sample_n' = SampleSize(frac, n_clients)
  /\ IF SampleRaises(sample_n', n_clients)
       THEN /\ pc' = "failed"
            /\ error' = "ValueError: larger sample than population"
            /\ UNCHANGED <<sample_clients, sample_set>>
       ELSE /\ \E r \in 0..MaxRot :
                 sample_clients' = Draw(unique_emails, sample_n', r)
            /\ sample_set' = Range(sample_clients')
            /\ pc' = "sampled"
            /\ UNCHANGED error
  /\ UNCHANGED <<variant, src, chunksize, pos, parts, df, df_model,
                 n_clients, frac, capVars, exportVars>>

\* ------------------------------------------- section 2: second pass
\* chunk["EMAIL_CLIENTE"].astype(str) of the first pass: a missing cell
\* becomes the string "nan"; an e-mail address is the string both passes read.
AsStr(c) == IF c = NA THEN NanStr ELSE c

\* The identifiers the first pass finds in the rows s.
PassOneIds(s) == {AsStr(s[i].EMAIL_CLIENTE) : i \in 1..Len(s)}

\* pd.to_numeric(col, errors="coerce")
ToNumeric(c) == IF c \in {NA, Malformed} THEN NA ELSE c

\* pd.to_datetime(DATA_COMPRA + " " + HORA_COMPRA, errors="coerce").
\* client: NaN + " " is NaN, so either cell missing gives NaT.
\* route: both cells are fillna("") and the result stripped: an empty string
\* is NaT, and a date without a time is parsed on its own (midnight, where
\* the parser takes the bare date; SrcWhen holds no such cell).
ToDatetime(v, d, t) ==
  IF d \in {NA, Malformed} \/ t = Malformed THEN NA
  ELSE IF t = NA THEN (IF v = "client" THEN NA ELSE d * TicksPerDay)
  ELSE d * TicksPerDay + t

\* A comparison that also puts a row before the rows of equal key.
RECURSIVE KeyLessOrEqual(_, _, _)
KeyLessOrEqual(a, b, cols) ==
  IF cols = <<>> THEN TRUE
  ELSE LET x == a[Head(cols)]
           y == b[Head(cols)]
       IN IF x = y THEN KeyLessOrEqual(a, b, Tail(cols))
          ELSE IF x = NA THEN FALSE
          ELSE IF y = NA THEN TRUE
          ELSE x < y

\* One sort key against another, column by column; NaN sorts last.
RECURSIVE KeyLess(_, _, _)
KeyLess(a, b, cols) ==
  IF cols = <<>> THEN FALSE
  ELSE LET x == a[Head(cols)]
           y == b[Head(cols)]
       IN IF x = y THEN KeyLess(a, b, Tail(cols))
          ELSE IF x = NA THEN FALSE
          ELSE IF y = NA THEN TRUE
          ELSE x < y

\* x put after every row that does not sort after it.
RECURSIVE InsertSorted(_, _, _)
InsertSorted(s, x, cols) ==
  IF s = <<>> THEN <<x>>
  ELSE IF KeyLess(x, Head(s), cols) THEN <<x>> \o s
  ELSE <<Head(s)>> \o InsertSorted(Tail(s), x, cols)

\* DataFrame.sort_values(cols): ascending, NaN last, rows of equal keys in
\* their former order (a multi-column sort is numpy's lexsort, stable).
RECURSIVE SortValues(_, _)
SortValues(s, cols) ==
  IF s = <<>> THEN <<>>
  ELSE InsertSorted(SortValues(SubSeq(s, 1, Len(s) - 1), cols), s[Len(s)], cols)

\* A filter that lets every row through.
IsSampledAlways(r, set) == TRUE

\* chunk["EMAIL_CLIENTE"].isin(sample_set): the cell is read as a string
\* (dtype=str), a missing cell stays NaN and is in no set of strings.
IsSampled(r, set) == r.EMAIL_CLIENTE # NA /\ r.EMAIL_CLIENTE \in set

\* The rows of one chunk after parsing, keep_cols only. line is the row's
\* place in the file, carried to tell rows apart.
ParseRow(v, r, n) ==
  [line |-> n,
   EMAIL_CLIENTE |-> r.EMAIL_CLIENTE,
   DATA_HORA_COMPRA |-> ToDatetime(v, r.DATA_COMPRA, r.HORA_COMPRA),
   VALOR_TOTAL_PASSAGEM |-> ToNumeric(r.VALOR_TOTAL_PASSAGEM),
   QUANTIDADE_PASSAGENS |-> ToNumeric(r.QUANTIDADE_PASSAGENS),
   ORIGEM |-> r.ORIGEM,
   DESTINO |-> r.DESTINO]

\* Rows from..to of the file, filtered to the sample, parsed; the route
\* script sorts each chunk by (EMAIL_CLIENTE, DATA_HORA_COMPRA).
ProcessChunk(v, s, from, to, set) ==
  LET raw == [i \in 1..(to - from + 1) |-> ParseRow(v, s[from + i - 1], from + i - 1)]
      kept == SelectSeq(raw, LAMBDA r : IsSampled(r, set))
  IN IF v = "route"
       THEN SortValues(kept, <<"EMAIL_CLIENTE", "DATA_HORA_COMPRA">>)
       ELSE kept

\* The body of the loop over read_csv(..., chunksize=CHUNKSIZE): an empty
\* filtered chunk is skipped.
ReadChunk ==
  /\ pc = "pass2"
  /\ pos < Len(src)
  /\ LET to == Min(pos + chunksize, Len(src))
         chunk == ProcessChunk(variant, src, pos + 1, to, sample_set)
     IN /\ parts' = IF chunk = <<>> THEN parts ELSE Append(parts, chunk)
        /\ pos' = to
  /\ UNCHANGED <<variant, src, chunksize, df, df_model, pc, error,
                 n_clients, frac, sample_n, sample_clients, sample_set,
                 capVars, exportVars>>

RECURSIVE Flatten(_)
Flatten(ps) == IF ps = <<>> THEN <<>> ELSE Head(ps) \o Flatten(Tail(ps))

\* pd.concat(parts, ignore_index=True): the rows in order, index 0..n-1.
ConcatParts(ps) ==
  LET rows == Flatten(ps)
  IN [i \in 1..Len(rows) |-> rows[i] @@ [index |-> i - 1]]

\* pd.concat raises on an empty list (no chunk held a sampled row).
Concat ==
  /\ pc = "pass2"
  /\ pos = Len(src)
  /\ IF parts = <<>>
       THEN /\ pc' = "failed"
            /\ error' = "ValueError: No objects to concatenate"
            /\ UNCHANGED df
       ELSE /\ df' = ConcatParts(parts)
            /\ pc' = "timeline"
            /\ UNCHANGED error
  /\ parts' = <<>>
  /\ UNCHANGED <<variant, src, chunksize, pos, df_model,
                 n_clients, frac, sample_n, sample_clients, sample_set,
                 capVars, exportVars>>

\* ------------------------------------------ section 2, end: timeline
\* df.dropna(subset=["DATA_HORA_COMPRA"])
DropNaT(s) == SelectSeq(s, LAMBDA r : r.DATA_HORA_COMPRA # NA)

TimelineCols(v) ==
  IF v = "client" THEN <<"EMAIL_CLIENTE", "DATA_HORA_COMPRA">>
  ELSE <<"EMAIL_CLIENTE", "ORIGEM", "DESTINO", "DATA_HORA_COMPRA">>

\* client: sort_values only (line 111). route: dropna, then sort_values
\* (lines 96-99).
BuildTimeline(v, s) ==
  IF v = "client" THEN SortValues(s, TimelineCols(v))
  ELSE SortValues(DropNaT(s), TimelineCols(v))

\* ------------------------------------ the two passes, loop by loop
\* email_series after the loop of lines 49-51 with chunks of cs rows: the
\* chunks' e-mail cells as strings, one chunk after the other.
RECURSIVE EmailSeries(_, _, _)
EmailSeries(s, cs, p) ==
  IF p >= Len(s) THEN <<>>
  ELSE LET to == Min(p + cs, Len(s))
       IN [i \in 1..(to - p) |-> AsStr(s[p + i].EMAIL_CLIENTE)] \o EmailSeries(s, cs, to)

\* Series.drop_duplicates(): the first occurrence of each value, in order.
RECURSIVE DropDuplicates(_)
DropDuplicates(q) ==
  IF q = <<>> THEN <<>>
  ELSE LET front == DropDuplicates(SubSeq(q, 1, Len(q) - 1))
       IN IF q[Len(q)] \in Range(front) THEN front ELSE Append(front, q[Len(q)])

\* unique_emails = email_series.dropna().drop_duplicates(); after
\* astype(str) no cell is missing.
UniqueEmails(s, cs) == DropDuplicates(EmailSeries(s, cs, 0))

\* data_parts after the loop of lines 77-103 over the rows after p.
RECURSIVE DataParts(_, _, _, _, _)
DataParts(v, s, cs, set, p) ==
  IF p >= Len(s) THEN <<>>
  ELSE LET to == Min(p + cs, Len(s))
           chunk == ProcessChunk(v, s, p + 1, to, set)
       IN (IF chunk = <<>> THEN <<>> ELSE <<chunk>>) \o DataParts(v, s, cs, set, to)

\* The sorted table of section 2, from the file read in chunks of cs rows.
Ingested(v, s, cs, set) == BuildTimeline(v, ConcatParts(DataParts(v, s, cs, set, 0)))

\* A timeline step that leaves the table as concatenated.
TimelineSkipped ==
  /\ pc = "timeline"
  /\ df' = df
  /\ pc' = "labels"
  /\ UNCHANGED <<variant, src, chunksize, pos, parts, df_model, error,
                 n_clients, frac, sample_n, sample_clients, sample_set,
                 capVars, exportVars>>

Timeline ==
  /\ pc = "timeline"
  /\ df' = BuildTimeline(variant, df)
  /\ pc' = "labels"
  /\ UNCHANGED <<variant, src, chunksize, pos, parts, df_model, error,
                 n_clients, frac, sample_n, sample_clients, sample_set,
                 capVars, exportVars>>

\* ------------------------------- section 3: time to the next purchase
\* Rows i and j of s are in one group of groupby(cols). groupby drops the
\* rows with a missing key (dropna=True): they are in no group.
SameGroup(s, i, j, cols) ==
  \A k \in 1..Len(cols) : s[i][cols[k]] # NA /\ s[i][cols[k]] = s[j][cols[k]]

SetMin(S) == CHOOSE x \in S : \A y \in S : x <= y
SetMax(S) == CHOOSE x \in S : \A y \in S : x >= y

\* The place of the row groupby(cols).shift(-1) reads for row i; 0 if none.
NextInGroup(s, i, cols) ==
  LET later == {j \in (i + 1)..Len(s) : SameGroup(s, i, j, cols)}
  IN IF later = {} THEN 0 ELSE SetMin(later)

\* The place of the row groupby(cols).shift(1) reads for row i; 0 if none.
PrevInGroup(s, i, cols) ==
  LET earlier == {j \in 1..(i - 1) : SameGroup(s, i, j, cols)}
  IN IF earlier = {} THEN 0 ELSE SetMax(earlier)

\* groupby(cols)[col].shift(-1) and .shift(1): NaN where no row is read.
ShiftNext(s, i, cols, col) ==
  IF NextInGroup(s, i, cols) = 0 THEN NA ELSE s[NextInGroup(s, i, cols)][col]

ShiftPrev(s, i, cols, col) ==
  IF PrevInGroup(s, i, cols) = 0 THEN NA ELSE s[PrevInGroup(s, i, cols)][col]

\* A difference of timestamps; NaT on either side gives NaT.
Sub(a, b) == IF a = NA \/ b = NA THEN NA ELSE a - b

\* Timedelta.days: the whole days of a difference, rounded down.
Days(td) == IF td = NA THEN NA ELSE td \div TicksPerDay

\* The key of the survival groups: the customer, or the customer's route.
GroupCols(v) ==
  IF v = "client" THEN <<"EMAIL_CLIENTE">>
  ELSE <<"EMAIL_CLIENTE", "ORIGEM", "DESTINO">>

\* tempo_prox before fillna.
TempoProxRaw(v, s, i) ==
  Days(Sub(ShiftNext(s, i, GroupCols(v), "DATA_HORA_COMPRA"), s[i].DATA_HORA_COMPRA))

\* evento = (~tempo_prox.isna()).astype(int); tempo_prox.fillna(9999)
SurvivalLabels(v, s) ==
  [i \in 1..Len(s) |->
     s[i] @@ [evento |-> IF TempoProxRaw(v, s, i) = NA THEN 0 ELSE 1,
              tempo_prox |-> IF TempoProxRaw(v, s, i) = NA THEN Censored
                             ELSE TempoProxRaw(v, s, i)]]

Labels ==
  /\ pc = "labels"
  /\ df' = SurvivalLabels(variant, df)
  /\ pc' = "features"
  /\ UNCHANGED <<variant, src, chunksize, pos, parts, df_model, error,
                 n_clients, frac, sample_n, sample_clients, sample_set,
                 capVars, exportVars>>

\* ---------------------------------------- section 4: feature engineering
\* Both scripts take the previous row, the running count and the historical
\* mean over groupby("EMAIL_CLIENTE"), whatever the key of section 3.
CustomerCols == <<"EMAIL_CLIENTE">>

NaN == [num |-> 0, den |-> 0]

RECURSIVE SumOver(_, _, _)
SumOver(s, J, col) ==
  IF J = {} THEN 0
  ELSE LET j == SetMin(J) IN s[j][col] + SumOver(s, J \ {j}, col)

\* The rows before i in i's group, in table order.
PriorRows(s, i, cols) == {j \in 1..(i - 1) : SameGroup(s, i, j, cols)}

\* Of the rows J, those with an amount.
WithAmount(s, J) == {j \in J : s[j].VALOR_TOTAL_PASSAGEM # NA}

\* dias_desde_ultima
DiasDesdeUltima(s, i) ==
  Days(Sub(s[i].DATA_HORA_COMPRA, ShiftPrev(s, i, CustomerCols, "DATA_HORA_COMPRA")))

\* groupby("EMAIL_CLIENTE").cumcount()
CumCount(s, i) == Cardinality(PriorRows(s, i, CustomerCols))

\* client: s.shift(1).expanding().mean() within the customer's rows. The
\* expanding mean skips NaN: it is the mean of the prior amounts present,
\* NaN when there is none.
ExpandingMeanOfShifted(s, i) ==
  LET P == WithAmount(s, PriorRows(s, i, CustomerCols))
  IN IF P = {} THEN NaN
     ELSE [num |-> SumOver(s, P, "VALOR_TOTAL_PASSAGEM"), den |-> Cardinality(P)]

\* route: val_shift.groupby(EMAIL).cumsum() / cumcount().replace(0, nan).
\* cumsum skips NaN in the running sum but leaves NaN where val_shift is NaN;
\* the divisor counts every prior row.
CumSumOverCumCount(s, i) ==
  LET P == PriorRows(s, i, CustomerCols)
  IN IF ShiftPrev(s, i, CustomerCols, "VALOR_TOTAL_PASSAGEM") = NA THEN NaN
     ELSE [num |-> SumOver(s, WithAmount(s, P), "VALOR_TOTAL_PASSAGEM"),
           den |-> Cardinality(P)]

ValorMedioHistorico(v, s, i) ==
  IF v = "client" THEN ExpandingMeanOfShifted(s, i) ELSE CumSumOverCumCount(s, i)

\* The calendar day of a timestamp, counted from 1970-01-01 (a Thursday).
DayOf(t) == t \div TicksPerDay

\* dt.dt.year, month, day, dayofweek, isocalendar().week, for the days of
\* January 1970 that the timestamps of the model fall on; NaN for NaT.
\* compra_fds is isin([5, 6]), which is False for NaN.
CalendarFeatures(t) ==
  [compra_ano |-> IF t = NA THEN NA ELSE 1970,
   compra_mes |-> IF t = NA THEN NA ELSE 1,
   compra_dia |-> IF t = NA THEN NA ELSE DayOf(t) + 1,
   compra_dow |-> IF t = NA THEN NA ELSE (DayOf(t) + 3) % 7,
   compra_fds |-> IF t = NA THEN 0 ELSE IF ((DayOf(t) + 3) % 7) \in {5, 6} THEN 1 ELSE 0,
   compra_semana_ano |-> IF t = NA THEN NA ELSE ((DayOf(t) + 3) \div 7) + 1]

\* route: df[col].value_counts(dropna=True) / len(df), mapped back, fillna(0.0)
CityFreq(s, i, col) ==
  IF s[i][col] = NA THEN [num |-> 0, den |-> 1]
  ELSE [num |-> Cardinality({j \in 1..Len(s) : s[j][col] = s[i][col]}), den |-> Len(s)]

\* route: df.groupby(col)["VALOR_TOTAL_PASSAGEM"].mean(), mapped back, fillna(0.0)
CityTicketMean(s, i, col) ==
  LET P == WithAmount(s, {j \in 1..Len(s) : s[j][col] = s[i][col]})
  IN IF s[i][col] = NA \/ P = {} THEN [num |-> 0, den |-> 1]
     ELSE [num |-> SumOver(s, P, "VALOR_TOTAL_PASSAGEM"), den |-> Cardinality(P)]

RouteFeatures(s, i) ==
  [ORIGEM_freq |-> CityFreq(s, i, "ORIGEM"),
   DESTINO_freq |-> CityFreq(s, i, "DESTINO"),
   ORIGEM_ticket_mean |-> CityTicketMean(s, i, "ORIGEM"),
   DESTINO_ticket_mean |-> CityTicketMean(s, i, "DESTINO")]

FeatureRows(v, s) ==
  [i \in 1..Len(s) |->
     s[i] @@ [dias_desde_ultima |-> DiasDesdeUltima(s, i),
              compras_ate_agora |-> CumCount(s, i),
              valor_medio_historico |-> ValorMedioHistorico(v, s, i)]
          @@ CalendarFeatures(s[i].DATA_HORA_COMPRA)
          @@ (IF v = "route" THEN RouteFeatures(s, i) ELSE <<>>)]

\* client, line 140: isocalendar().week is a nullable integer column and
\* .astype(int) raises when it holds <NA>, that is when a timestamp is NaT.
\* route: the casts to int16/int8 run on a table without NaT.
CalendarRaises(v, s) ==
  v = "client" /\ \E i \in 1..Len(s) : s[i].DATA_HORA_COMPRA = NA

Features ==
  /\ pc = "features"
  /\ df' = FeatureRows(variant, df)
  /\ IF CalendarRaises(variant, df)
       THEN /\ pc' = "failed"
            /\ error' = "ValueError: cannot convert NA to integer"
       ELSE /\ pc' = "model"
            /\ UNCHANGED error
  /\ UNCHANGED <<variant, src, chunksize, pos, parts, df_model,
                 n_clients, frac, sample_n, sample_clients, sample_set,
                 capVars, exportVars>>

\* --------------------------------- section 5 (route script): cap_rare
TOP_CATS == 10

\* What a label column holds after astype(str): category names, "nan" for
\* a missing cell, and a category that is itself called "OTHER".
CatLabels == {"F", "M", "X", "nan", "OTHER"}
TopNs == {0, 1, 2, TOP_CATS}

\* How often x occurs in s, and where it occurs first.
Count(s, x) == Cardinality({i \in 1..Len(s) : s[i] = x})
FirstAt(s, x) == SetMin({i \in 1..Len(s) : s[i] = x})

\* The number of values value_counts() lists before x: the more frequent
\* ones, and of the equally frequent ones those met earlier in the column
\* (the hash table lists values as met, the sort by count keeps that order).
RankOf(s, x) ==
  Cardinality({y \in Range(s) :
                 \/ Count(s, y) > Count(s, x)
                 \/ Count(s, y) = Count(s, x) /\ FirstAt(s, y) < FirstAt(s, x)})

\* series.value_counts().index: the distinct values, most frequent first.
ValueCountsIndex(s) ==
  [k \in 1..Cardinality(Range(s)) |-> CHOOSE x \in Range(s) : RankOf(s, x) = k - 1]

\* A compaction that retains every label.
cap_rare_keep_all(s, n) == s

\* top = series.value_counts().index[:top_n]
\* series.where(series.isin(top), other="OTHER")
cap_rare(s, n) ==
  LET idx == ValueCountsIndex(s)
      top == Range(SubSeq(idx, 1, Min(n, Len(idx))))
  IN [i \in 1..Len(s) |-> IF s[i] \in top THEN s[i] ELSE "OTHER"]

\* df[col + "_cap"] = cap_rare(df[col].astype(str), top_n)
CapRare ==
  /\ pc = "cap_rare"
  /\ capped' = cap_rare(series, top_n)
  /\ pc' = "capped"
  /\ UNCHANGED <<variant, src, chunksize, pos, parts, df, df_model, error,
                 n_clients, frac, sample_n, sample_clients, sample_set,
                 series, top_n, exportVars>>

\* ------------------------------------- sections 5-6: the modeling table
NumCols ==
  <<"VALOR_TOTAL_PASSAGEM", "QUANTIDADE_PASSAGENS", "dias_desde_ultima",
    "compras_ate_agora", "compra_ano", "compra_mes", "compra_dia",
    "compra_dow", "compra_fds", "compra_semana_ano", "tempo_prox", "evento">>

\* A row dropna() removes: a missing value in a feature column or in
\* tempo_prox / evento. The indicator columns of get_dummies and the route
\* script's filled city columns are never missing.
HasMissing(r) ==
  \/ \E k \in 1..Len(NumCols) : r[NumCols[k]] = NA
  \/ r.valor_medio_historico = NaN

\* A modeling table that keeps every row.
ModelRowsKeepAll(s) == s

\* df_model = df[...].dropna(...)
ModelRows(s) == SelectSeq(s, LAMBDA r : ~HasMissing(r))

PrepareModel ==
  /\ pc = "model"
  /\ df_model' = ModelRows(df)
  /\ pc' = "fit"
  /\ UNCHANGED <<variant, src, chunksize, pos, parts, df, error,
                 n_clients, frac, sample_n, sample_clients, sample_set,
                 capVars, exportVars>>

\* ------------------------------------- sections 6-8: fit, predict, export
\* 30-day probabilities, in tenths.
Probs == {3, 8}

\* cph.fit(...): what CoxPHFitter makes of a table is the library's verdict
\* (it raises on data it cannot fit); the scripts test nothing themselves,
\* before the call or after it, and catch nothing.
FitOutcomes == {"fitted", "raises"}

Fit ==
  /\ pc = "fit"
  /\ \E o \in FitOutcomes :
       IF o = "raises"
         THEN /\ pc' = "failed"
              /\ error' = "ConvergenceError"
              /\ UNCHANGED cph
         ELSE /\ cph' = "fitted"
              /\ pc' = "predict"
              /\ UNCHANGED error
  /\ UNCHANGED <<variant, src, chunksize, pos, parts, df, df_model,
                 n_clients, frac, sample_n, sample_clients, sample_set,
                 capVars, df_export, output>>

\* df_model["prob_30dias"] = 1 - cph.predict_survival_function(...).T[30]:
\* one probability a row, whatever the fitted model gives it.
Predict ==
  /\ pc = "predict"
  /\ \E p \in [1..Len(df_model) -> Probs] :
       df_model' = [i \in 1..Len(df_model) |-> df_model[i] @@ [prob_30dias |-> p[i]]]
  /\ pc' = "export"
  /\ UNCHANGED <<variant, src, chunksize, pos, parts, df, error,
                 n_clients, frac, sample_n, sample_clients, sample_set,
                 capVars, exportVars>>

\* The members of a set of cells, ascending.
SortedSeq(S) ==
  [k \in 1..Cardinality(S) |-> CHOOSE x \in S : Cardinality({y \in S : y < x}) = k - 1]

\* The groups of groupby("EMAIL_CLIENTE"): the keys ascending, no missing key.
CustomerKeys(s) == SortedSeq({s[i].EMAIL_CLIENTE : i \in 1..Len(s)} \ {NA})

\* The places in s of customer e's rows.
RowsOf(s, e) == {i \in 1..Len(s) : s[i].EMAIL_CLIENTE = e}

\* df.loc[idx, "EMAIL_CLIENTE"]: the cell of the row labelled idx.
LocEmail(d, idx) ==
  LET j == CHOOSE j \in 1..Len(d) : d[j].index = idx
  IN d[j].EMAIL_CLIENTE

\* df_model_export: the probabilities with the e-mail read back from df by
\* index label (client lines 182-187).
ModelExport(d, m) ==
  [i \in 1..Len(m) |->
     [EMAIL_CLIENTE |-> LocEmail(d, m[i].index), prob_30dias |-> m[i].prob_30dias]]

\* An aggregate that keeps each customer's largest probability.
MaxByCustomer(s) ==
  LET keys == CustomerKeys(s)
  IN [k \in 1..Len(keys) |->
        [EMAIL_CLIENTE |-> keys[k],
         prob_30dias |-> [num |-> SetMax({s[i].prob_30dias : i \in RowsOf(s, keys[k])}),
                          den |-> 1]]]

\* groupby("EMAIL_CLIENTE", as_index=False)["prob_30dias"].mean()
MeanByCustomer(s) ==
  LET keys == CustomerKeys(s)
  IN [k \in 1..Len(keys) |->
        [EMAIL_CLIENTE |-> keys[k],
         prob_30dias |-> [num |-> SumOver(s, RowsOf(s, keys[k]), "prob_30dias"),
                          den |-> Cardinality(RowsOf(s, keys[k]))]]]

\* A pick of each customer's first row.
IdxFirst(s, e) == s[SetMin(RowsOf(s, e))].index

\* groupby("EMAIL_CLIENTE")["prob_30dias"].idxmax() for customer e: the
\* label of the first row that holds the customer's largest probability.
IdxMax(s, e) ==
  LET top == SetMax({s[i].prob_30dias : i \in RowsOf(s, e)})
  IN s[SetMin({i \in RowsOf(s, e) : s[i].prob_30dias = top})].index

\* df_model.loc[top_idx, ["EMAIL_CLIENTE", "ORIGEM", "DESTINO", "prob_30dias"]]
TopRoutes(s) ==
  LET keys == CustomerKeys(s)
  IN [k \in 1..Len(keys) |->
        LET r == s[CHOOSE j \in 1..Len(s) : s[j].index = IdxMax(s, keys[k])]
        IN [EMAIL_CLIENTE |-> r.EMAIL_CLIENTE, ORIGEM |-> r.ORIGEM,
            DESTINO |-> r.DESTINO, prob_30dias |-> [num |-> r.prob_30dias, den |-> 1]]]

\* One probability before another: a / b < c / d, denominators positive.
ProbLess(x, y) == x.num * y.den < y.num * x.den

\* x put after every row whose probability is not smaller.
RECURSIVE InsertByProbDesc(_, _)
InsertByProbDesc(s, x) ==
  IF s = <<>> THEN <<x>>
  ELSE IF ProbLess(Head(s).prob_30dias, x.prob_30dias) THEN <<x>> \o s
  ELSE <<Head(s)>> \o InsertByProbDesc(Tail(s), x)

\* sort_values("prob_30dias", ascending=False)
RECURSIVE SortByProbDesc(_)
SortByProbDesc(s) ==
  IF s = <<>> THEN <<>>
  ELSE InsertByProbDesc(SortByProbDesc(SubSeq(s, 1, Len(s) - 1)), s[Len(s)])

\* The table handed to to_csv. client: the mean by customer, in groupby's
\* order. route: each customer's best row, then sorted by probability.
ExportRows(v, d, m) ==
  IF v = "client" THEN MeanByCustomer(ModelExport(d, m))
  ELSE SortByProbDesc(TopRoutes(m))

\* to_csv(path, index=False) creates or replaces the file in one call. The
\* client script writes into predictions/, which it does not create: the
\* call raises when the directory is not there.
ToCsvOutcomes(v) == IF v = "client" THEN {"written", "raises"} ELSE {"written"}

\* An export that leaves the file behind and then fails.
ExportThenFail ==
  /\ pc = "export"
  /\ df_export' = <<>>
  /\ output' = Append(output, <<>>)
  /\ pc' = "failed"
  /\ error' = "OSError"
  /\ UNCHANGED <<variant, src, chunksize, pos, parts, df, df_model,
                 n_clients, frac, sample_n, sample_clients, sample_set,
                 capVars, cph>>

Export ==
  /\ pc = "export"
  /\ df_export' = ExportRows(variant, df, df_model)
  /\ \E o \in ToCsvOutcomes(variant) :
       IF o = "raises"
         THEN /\ pc' = "failed"
              /\ error' = "OSError: cannot save file into a non-existent directory"
              /\ UNCHANGED output
         ELSE /\ output' = Append(output, df_export')
              /\ pc' = "done"
              /\ UNCHANGED error
  /\ UNCHANGED <<variant, src, chunksize, pos, parts, df, df_model,
                 n_clients, frac, sample_n, sample_clients, sample_set,
                 capVars, cph>>

\* ------------------------------------------------------ specifications
\* cap_rare has not been called; nothing is fitted, nothing is written.
NoCapRare == series = <<>> /\ top_n = 0 /\ capped = <<>>

NoExport == cph = "none" /\ df_export = <<>> /\ output = <<>>

SrcRow(e, w) ==
  [EMAIL_CLIENTE |-> e, DATA_COMPRA |-> w[1], HORA_COMPRA |-> w[2],
   VALOR_TOTAL_PASSAGEM |-> 2, QUANTIDADE_PASSAGENS |-> 1,
   ORIGEM |-> 1, DESTINO |-> 1]

SrcRowValues == {SrcRow(e, w) : e \in Emails \cup {NA}, w \in SrcWhen}

TableRow(e, t, o, a) ==
  [EMAIL_CLIENTE |-> e, DATA_HORA_COMPRA |-> t, VALOR_TOTAL_PASSAGEM |-> a,
   QUANTIDADE_PASSAGENS |-> 1, ORIGEM |-> o, DESTINO |-> 1]

TableRowValues ==
  {TableRow(e, t, o, a) : e \in Emails, t \in Times, o \in Cities \cup {NA}, a \in Amounts}

\* A table as pd.concat(..., ignore_index=True) leaves it.
Indexed(rows) == [i \in 1..Len(rows) |-> rows[i] @@ [index |-> i - 1, line |-> i]]

InitSample ==
  /\ n_clients \in 0..MaxClients
  /\ frac \in SampleFracs
  /\ pc = "sample"
  /\ error = ""
  /\ sample_n = 0
  /\ sample_clients = <<>>
  /\ sample_set = {}
  /\ variant = "client"
  /\ src = <<>>
  /\ chunksize = CHUNKSIZE
  /\ pos = 0
  /\ parts = <<>>
  /\ df = <<>>
  /\ df_model = <<>>
  /\ NoCapRare
  /\ NoExport

NextSample == Sample

SpecSample == InitSample /\ [][NextSample]_vars

\* After section 1. src lists the rows of the customers under observation,
\* and sample_set is the sample restricted to their identifiers: any subset
\* of what the first pass found in these rows (all of it when SAMPLE_FRAC = 1).
Init ==
  /\ variant \in Variants
  /\ src \in SeqsUpTo(SrcRowValues, MaxSrcRows)
  /\ chunksize \in ChunkSizes
  /\ sample_set \in SUBSET PassOneIds(src)
  /\ n_clients = Cardinality(PassOneIds(src))
  /\ frac = 100
  /\ sample_n = Cardinality(sample_set)
  /\ sample_clients = <<>>
  /\ pos = 0
  /\ parts = <<>>
  /\ df = <<>>
  /\ df_model = <<>>
  /\ pc = "pass2"
  /\ error = ""
  /\ NoCapRare
  /\ NoExport

NextBuild == Timeline \/ Labels \/ Features \/ PrepareModel

NextModel == Fit \/ Predict \/ Export

Next == ReadChunk \/ Concat \/ NextBuild

Spec == Init /\ [][Next]_vars

\* Section 2 alone: the chunk loop, the concatenation and the sort.
NextIngest == ReadChunk \/ Concat \/ Timeline

SpecIngest == Init /\ [][NextIngest]_vars

\* After pd.concat: any non-empty table of rows of sampled customers.
InitFeatures ==
  /\ variant \in Variants
  /\ df \in {Indexed(rows) : rows \in SeqsUpTo(TableRowValues, MaxRows) \ {<<>>}}
  /\ sample_set = {df[i].EMAIL_CLIENTE : i \in 1..Len(df)}
  /\ n_clients = Cardinality(sample_set)
  /\ frac = 100
  /\ sample_n = n_clients
  /\ sample_clients = <<>>
  /\ src = <<>>
  /\ chunksize = CHUNKSIZE
  /\ pos = 0
  /\ parts = <<>>
  /\ df_model = <<>>
  /\ pc = "timeline"
  /\ error = ""
  /\ NoCapRare
  /\ NoExport

SpecFeatures == InitFeatures /\ [][NextBuild]_vars

\* cap_rare on its own: any short label column, any top_n.
InitCapRare ==
  /\ series \in SeqsUpTo(CatLabels, MaxSeries)
  /\ top_n \in TopNs
  /\ capped = <<>>
  /\ pc = "cap_rare"
  /\ error = ""
  /\ variant = "route"
  /\ src = <<>>
  /\ chunksize = CHUNKSIZE
  /\ pos = 0
  /\ parts = <<>>
  /\ df = <<>>
  /\ df_model = <<>>
  /\ n_clients = 0
  /\ frac = 100
  /\ sample_n = 0
  /\ sample_clients = <<>>
  /\ sample_set = {}
  /\ NoExport

NextCapRare == CapRare

SpecCapRare == InitCapRare /\ [][NextCapRare]_vars

\* After section 5: the purchases of up to two customers on up to two
\* routes, one purchase a day, all with an amount, taken through sections
\* 2-5 to the table the model is fitted on.
ExportTables ==
  UNION {{[i \in 1..k |-> TableRow(es[i], i * TicksPerDay, os[i], 2)] :
            es \in [1..k -> Emails], os \in [1..k -> Cities]} : k \in 1..MaxExportRows}

Prepared(v, rows) == FeatureRows(v, SurvivalLabels(v, BuildTimeline(v, Indexed(rows))))

InitExport ==
  /\ variant \in Variants
  /\ df \in {Prepared(variant, rows) : rows \in ExportTables}
  /\ df_model = ModelRows(df)
  /\ sample_set = {df[i].EMAIL_CLIENTE : i \in 1..Len(df)}
  /\ n_clients = Cardinality(sample_set)
  /\ frac = 100
  /\ sample_n = n_clients
  /\ sample_clients = <<>>
  /\ src = <<>>
  /\ chunksize = CHUNKSIZE
  /\ pos = 0
  /\ parts = <<>>
  /\ pc = "fit"
  /\ error = ""
  /\ NoCapRare
  /\ NoExport

SpecExport == InitExport /\ [][NextModel]_vars

\* A whole run: the first pass and the sample on a source known by its
\* number of customers, or the rest of the script on the rows of the
\* customers under observation, read with the script's own CHUNKSIZE.
InitStart ==
  /\ variant \in Variants
  /\ frac \in SampleFracs
  /\ n_clients = 0
  /\ pc = "start"
  /\ error = ""
  /\ sample_n = 0
  /\ sample_clients = <<>>
  /\ sample_set = {}
  /\ src = <<>>
  /\ chunksize = CHUNKSIZE
  /\ pos = 0
  /\ parts = <<>>
  /\ df = <<>>
  /\ df_model = <<>>
  /\ NoCapRare
  /\ NoExport

InitRun == InitStart \/ (Init /\ chunksize = CHUNKSIZE)

NextRun == PassOne \/ Sample \/ Next \/ NextModel

SpecRun == InitRun /\ [][NextRun]_vars

\* ------------------------------------------------------------- claims
\* Rows i and j of s carry the same grouping key, a missing city being a
\* key value like any other.
SameKey(s, i, j, cols) == \A k \in 1..Len(cols) : s[i][cols[k]] = s[j][cols[k]]

\* The rows of s that share row i's grouping key: i's timeline.
TimelineOf(s, i, cols) == {j \in 1..Len(s) : SameKey(s, i, j, cols)}

\* Two rationals [num, den] are the same value; NaN only equals NaN.
SameValue(x, y) ==
  IF x.den = 0 \/ y.den = 0 THEN x.den = 0 /\ y.den = 0
  ELSE x.num * y.den = y.num * x.den

\* C1: once the labels are computed, every timeline (the rows of one customer,
\* or of one customer and route) of length L has exactly L-1 rows with
\* evento = 1 and exactly one row with evento = 0, its last row.
C1_OneCensoredPerTimeline ==
  pc = "features" =>
    \A i \in 1..Len(df) :
      LET T == TimelineOf(df, i, GroupCols(variant))
      IN /\ Cardinality({j \in T : df[j].evento = 1}) = Cardinality(T) - 1
         /\ {j \in T : df[j].evento = 0} = {SetMax(T)}

\* C2: once the labels are computed, tempo_prox of a row is the whole-day
\* difference to the next row of its timeline when there is one, and 9999
\* when there is none; it is never negative, and evento = 0 exactly when
\* there is no next row.
C2_DurationIsGapOrSentinel ==
  pc = "features" =>
    \A i \in 1..Len(df) :
      LET later == {j \in TimelineOf(df, i, GroupCols(variant)) : j > i}
      IN /\ df[i].tempo_prox >= 0
         /\ later = {} => df[i].tempo_prox = Censored /\ df[i].evento = 0
         /\ later # {} =>
              /\ df[i].evento = 1
              /\ df[SetMin(later)].DATA_HORA_COMPRA # NA
              /\ df[i].DATA_HORA_COMPRA # NA
              /\ df[i].tempo_prox =
                   (df[SetMin(later)].DATA_HORA_COMPRA - df[i].DATA_HORA_COMPRA)
                     \div TicksPerDay

\* C3: with fewer distinct customers than the floor of 500, sampling does not
\* fail: the sample size is the number of customers and every customer is in
\* the sample.
C3_ShortfallIsClamped ==
  (pc # "sample" /\ n_clients < MinSample) =>
    /\ pc = "sampled"
    /\ sample_n = n_clients
    /\ sample_set = Range(unique_emails)

\* C4, as claimed: the sampled set is a subset of the identifiers, holds no
\* identifier twice and has max(500, round(f * N)) members, rounding to nearest.
C4_SampleSizeRounded ==
  pc = "sampled" =>
    /\ sample_set \subseteq Range(unique_emails)
    /\ Len(sample_clients) = Cardinality(sample_set)
    /\ Cardinality(sample_set) = Max(MinSample, Round(frac, n_clients))

\* C4, amended: the size asked for is max(500, int(f * N)), the product cut
\* to its integer part. When it is at most N the sampled set is a subset of
\* the identifiers, holds no identifier twice and has exactly that many
\* members; when it exceeds N the draw raises and there is no sampled set.
C4_SampleSizeTruncated ==
  LET asked == Max(MinSample, (frac * n_clients) \div 100)
  IN /\ pc = "sampled" =>
          /\ asked <= n_clients
          /\ sample_set \subseteq Range(unique_emails)
          /\ Len(sample_clients) = Cardinality(sample_set)
          /\ Cardinality(sample_set) = asked
     /\ pc = "failed" => asked > n_clients /\ sample_set = {}

\* A sample was drawn where rounding and cutting differ and the floor does
\* not decide the size.
C4_Witness ==
  /\ pc = "sampled"
  /\ Round(frac, n_clients) # IntTrunc(frac, n_clients)
  /\ IntTrunc(frac, n_clients) >= MinSample

\* C5: after the second pass every row of the table belongs to a sampled
\* customer, every file row of a sampled customer is in the table exactly
\* once, and the table has at most as many rows as the file.
C5_OnlySampledRowsOnce ==
  pc = "timeline" =>
    /\ \A i \in 1..Len(df) :
         /\ df[i].EMAIL_CLIENTE \in sample_set
         /\ df[i].line \in 1..Len(src)
         /\ df[i].EMAIL_CLIENTE = src[df[i].line].EMAIL_CLIENTE
    /\ \A n \in 1..Len(src) :
         src[n].EMAIL_CLIENTE \in sample_set =>
           Cardinality({i \in 1..Len(df) : df[i].line = n}) = 1
    /\ Len(df) <= Len(src)

\* The second pass read several chunks, kept rows from more than one of them
\* and left a row out.
C5_Witness ==
  /\ pc = "timeline"
  /\ chunksize = 1
  /\ Len(df) >= 2
  /\ Len(df) < Len(src)
  /\ \E n \in 1..Len(src) : src[n].EMAIL_CLIENTE \in Emails \ sample_set

\* C6: a missing or malformed date cell in a row of a sampled customer never
\* aborts the run, and the row is not in the modeling table.
C6_BadCellNeverAborts ==
  \A n \in 1..Len(src) :
    ( /\ IsSampled(src[n], sample_set)
      /\ ToDatetime(variant, src[n].DATA_COMPRA, src[n].HORA_COMPRA) = NA ) =>
        /\ pc # "failed"
        /\ pc = "fit" => \A i \in 1..Len(df_model) : df_model[i].line # n

\* C7: the table handed to the feature engine holds no missing timestamp and
\* is in ascending order of (grouping key, timestamp).
C7_TimelineHasNoMissingTimestamp ==
  pc = "labels" =>
    /\ \A i \in 1..Len(df) : df[i].DATA_HORA_COMPRA # NA
    /\ \A i \in 1..(Len(df) - 1) : ~KeyLess(df[i + 1], df[i], TimelineCols(variant))

\* C8: once the features are computed, dias_desde_ultima of a row is its
\* timestamp minus that of the preceding row of its timeline (the grouping of
\* tempo_prox), in whole days; it is missing exactly for the first row of a
\* timeline and is never negative.
C8_DaysSinceLastInTimeline ==
  pc \in {"model", "fit"} =>
    \A i \in 1..Len(df) :
      LET earlier == {j \in TimelineOf(df, i, GroupCols(variant)) : j < i}
      IN /\ earlier = {} <=> df[i].dias_desde_ultima = NA
         /\ earlier # {} =>
              df[i].dias_desde_ultima =
                (df[i].DATA_HORA_COMPRA - df[SetMax(earlier)].DATA_HORA_COMPRA)
                  \div TicksPerDay
         /\ df[i].dias_desde_ultima # NA => df[i].dias_desde_ultima >= 0

\* C9: once the features are computed, compras_ate_agora of a row is the
\* number of rows of its timeline (customer, or customer and route) that come
\* before it, 0 for the first row of each timeline.
C9_PurchasesSoFarInTimeline ==
  pc \in {"model", "fit"} =>
    \A i \in 1..Len(df) :
      df[i].compras_ate_agora =
        Cardinality({j \in TimelineOf(df, i, GroupCols(variant)) : j < i})

\* C10: once the features are computed, valor_medio_historico of a row is the
\* mean of the amounts of the customer's prior rows and is missing for the
\* first row; and the client script's computation and the route script's give
\* the same value on every table, amounts missing or not.
C10_HistoricalMeanAgrees ==
  pc \in {"model", "fit"} =>
    \A i \in 1..Len(df) :
      LET P == PriorRows(df, i, CustomerCols)
      IN /\ P = {} => df[i].valor_medio_historico = NaN
         /\ (P # {} /\ WithAmount(df, P) = P) =>
              SameValue(df[i].valor_medio_historico,
                        [num |-> SumOver(df, P, "VALOR_TOTAL_PASSAGEM"),
                         den |-> Cardinality(P)])
         /\ SameValue(ExpandingMeanOfShifted(df, i), CumSumOverCumCount(df, i))

\* C11: after cap_rare(series, top_n) the column holds at most top_n + 1
\* distinct labels; a value that fewer than top_n other values equal or
\* exceed in frequency is left as it was, wherever the ranking breaks ties;
\* every value outside the retained top_n is replaced by "OTHER"; and
\* evaluating cap_rare again on the same column gives the same column.
C11_Retained == Range(capped) \ {"OTHER"}

C11_CapRareCompacts ==
  pc = "capped" =>
    /\ Len(capped) = Len(series)
    /\ Cardinality(Range(capped)) <= top_n + 1
    /\ Cardinality(C11_Retained) <= top_n
    /\ \A i \in 1..Len(series) :
         /\ capped[i] \in {series[i], "OTHER"}
         /\ Cardinality({y \in Range(series) \ {series[i]} :
                           Count(series, y) >= Count(series, series[i])}) < top_n
              => capped[i] = series[i]
         /\ Cardinality({y \in Range(series) :
                           Count(series, y) > Count(series, series[i])}) >= top_n
              => capped[i] = "OTHER"
         /\ series[i] \notin C11_Retained => capped[i] = "OTHER"
         /\ series[i] \in C11_Retained => capped[i] = series[i]
    /\ capped = cap_rare(series, top_n)

\* A column with more distinct values than top_n, tied ones among them, has
\* been compacted: a value was retained and another replaced.
C11_Witness ==
  /\ pc = "capped"
  /\ top_n = 2
  /\ Cardinality(Range(series)) = 3
  /\ \E i, j \in 1..Len(series) :
       /\ series[i] # series[j]
       /\ Count(series, series[i]) = Count(series, series[j])
       /\ capped[i] = series[i]
       /\ capped[j] = "OTHER"
       /\ series[j] # "OTHER"

\* C12: a row with a missing required feature or a missing duration /
\* event is not in the modeling table, and no missing feature is given a
\* substitute value: in the route script no row whose origin or destination
\* city is missing is in the modeling table.
C12_MissingNeverImputed ==
  pc = "fit" =>
    \A i \in 1..Len(df_model) :
      /\ ~HasMissing(df_model[i])
      /\ variant = "route" =>
           df_model[i].ORIGEM # NA /\ df_model[i].DESTINO # NA

\* The customers with a row in the table s.
CustomersIn(s) == {s[i].EMAIL_CLIENTE : i \in 1..Len(s)}

\* C13: the file the route script writes holds exactly one row for each
\* customer with a row in the modeling table, and that row is one of the
\* customer's observations (origin, destination, probability) than which
\* none of the customer's observations has a strictly greater probability.
C13_BestRoutePerCustomer ==
  (variant = "route" /\ pc = "done") =>
    LET out == output[1]
    IN /\ Len(output) = 1
       /\ CustomersIn(out) = CustomersIn(df_model)
       /\ Len(out) = Cardinality(CustomersIn(df_model))
       /\ \A k \in 1..Len(out) :
            /\ out[k].prob_30dias.den = 1
            /\ \E i \in RowsOf(df_model, out[k].EMAIL_CLIENTE) :
                 /\ df_model[i].ORIGEM = out[k].ORIGEM
                 /\ df_model[i].DESTINO = out[k].DESTINO
                 /\ df_model[i].prob_30dias = out[k].prob_30dias.num
            /\ \A i \in RowsOf(df_model, out[k].EMAIL_CLIENTE) :
                 df_model[i].prob_30dias <= out[k].prob_30dias.num

\* A customer's two routes with probabilities 0.3 and 0.8, the smaller one
\* first in the table: the 0.8 route is exported.
C13_Witness ==
  /\ variant = "route"
  /\ pc = "done"
  /\ \E i, j \in 1..Len(df_model), k \in 1..Len(output[1]) :
       /\ i < j
       /\ df_model[i].EMAIL_CLIENTE = df_model[j].EMAIL_CLIENTE
       /\ df_model[i].ORIGEM # df_model[j].ORIGEM
       /\ df_model[i].prob_30dias = 3
       /\ df_model[j].prob_30dias = 8
       /\ output[1][k].EMAIL_CLIENTE = df_model[j].EMAIL_CLIENTE
       /\ output[1][k].ORIGEM = df_model[j].ORIGEM
       /\ output[1][k].prob_30dias.num = 8

\* C14: the file the client script writes holds exactly one row for each
\* distinct customer of the modeling table, and the row's probability is
\* the sum of the customer's probabilities divided by their number.
C14_MeanPerCustomer ==
  (variant = "client" /\ pc = "done") =>
    LET out == output[1]
    IN /\ Len(output) = 1
       /\ CustomersIn(out) = CustomersIn(df_model)
       /\ Len(out) = Cardinality(CustomersIn(df_model))
       /\ \A k \in 1..Len(out) :
            LET mine == RowsOf(df_model, out[k].EMAIL_CLIENTE)
            IN /\ out[k].prob_30dias.den > 0
               /\ out[k].prob_30dias.num * Cardinality(mine)
                    = SumOver(df_model, mine, "prob_30dias") * out[k].prob_30dias.den

\* A customer with probabilities 0.3 and 0.8 is exported with 0.55, which is
\* neither the first, the last nor the largest of them.
C14_Witness ==
  /\ variant = "client"
  /\ pc = "done"
  /\ \E k \in 1..Len(output[1]) :
       LET mine == RowsOf(df_model, output[1][k].EMAIL_CLIENTE)
       IN /\ Cardinality(mine) = 2
          /\ {df_model[i].prob_30dias : i \in mine} = {3, 8}
          /\ output[1][k].prob_30dias.num * 2 = 11 * output[1][k].prob_30dias.den

\* C15: in both scripts the rows of the written file are in descending
\* order of probability: no row's probability is below the next row's.
C15_OutputDescending ==
  pc = "done" =>
    \A k \in 1..(Len(output[1]) - 1) :
      ~ProbLess(output[1][k].prob_30dias, output[1][k + 1].prob_30dias)

\* Every row of the modeling table has its probability.
Predicted == \A i \in 1..Len(df_model) : "prob_30dias" \in DOMAIN df_model[i]

\* C17: in any run the output file is written at most once, by the last
\* step, after ingestion, feature engineering, fit and prediction are
\* complete; a run that fails, at whatever step, has written nothing.
C17_SingleWriteAtEnd ==
  /\ [](Len(output) <= 1)
  /\ [](pc = "failed" => output = <<>>)
  /\ [](output # <<>> => pc = "done")
  /\ [][output' # output =>
          /\ pc = "export" /\ pc' = "done"
          /\ output = <<>> /\ Len(output') = 1
          /\ pos = Len(src) /\ parts = <<>>
          /\ cph = "fitted" /\ Predicted]_vars

\* A run has written its file.
C17_Witness == pc = "done" /\ Len(output) = 1 /\ output[1] # <<>> /\ src # <<>>

\* C19: in the client script a customer's first observation is never in
\* the modeling table; a customer with k purchases has at most k - 1 rows
\* there, at most k - 2 of them with evento = 1 and at most one censored; a
\* customer with one purchase has none and is not in the written file; and
\* when no customer has more than two purchases no row has evento = 1.
C19_FirstObservationExcluded ==
  (variant = "client" /\ pc \in {"fit", "predict", "export", "done"}) =>
    /\ \A e \in CustomersIn(df) :
         LET k == Cardinality(RowsOf(df, e))
             mine == RowsOf(df_model, e)
             first == df[SetMin(RowsOf(df, e))].index
         IN /\ \A i \in mine : df_model[i].index # first
            /\ Cardinality(mine) <= k - 1
            /\ Cardinality({i \in mine : df_model[i].evento = 1}) <= Max(k - 2, 0)
            /\ Cardinality({i \in mine : df_model[i].evento = 0}) <= 1
            /\ k = 1 => mine = {}
            /\ (k = 1 /\ pc = "done") => e \notin CustomersIn(output[1])
    /\ (\A e \in CustomersIn(df) : Cardinality(RowsOf(df, e)) <= 2) =>
         \A i \in 1..Len(df_model) : df_model[i].evento = 0

\* A customer with three purchases has two rows in the modeling table, one
\* with evento = 1 and one censored; a customer with one purchase has none
\* and is not in the file.
C19_Witness ==
  /\ variant = "client"
  /\ pc = "done"
  /\ \E e, f \in CustomersIn(df) :
       /\ Cardinality(RowsOf(df, e)) = 3
       /\ {df_model[i].evento : i \in RowsOf(df_model, e)} = {0, 1}
       /\ Cardinality(RowsOf(df, f)) = 1
       /\ e \in CustomersIn(output[1])
       /\ f \notin CustomersIn(output[1])

\* A table without its index labels: the rows as the file would list them.
StripIndex(s) ==
  [i \in 1..Len(s) |-> <<s[i].line, s[i].EMAIL_CLIENTE, s[i].DATA_HORA_COMPRA,
                          s[i].VALOR_TOTAL_PASSAGEM, s[i].QUANTIDADE_PASSAGENS,
                          s[i].ORIGEM, s[i].DESTINO>>]

\* C20: the unique e-mails the sample is drawn from, hence the sampled set,
\* and the sorted table of section 2 are the same for any two chunk sizes:
\* the same rows in the same order, rows of equal key and timestamp in
\* source order, in both scripts: the table a run has built with its chunk
\* size is the table any other chunk size gives.
C20_ChunkSizeIrrelevant ==
  /\ pc = "labels" =>
       /\ \A c \in ChunkSizes \ {chunksize} :
            LET mine == UniqueEmails(src, chunksize)
                other == UniqueEmails(src, c)
            IN /\ other = mine
               /\ \A n \in 0..Len(other), r \in 0..MaxRot :
                    Range(Draw(other, n, r)) = Range(Draw(mine, n, r))
               /\ StripIndex(Ingested(variant, src, c, sample_set)) = StripIndex(df)
       /\ \A i, j \in 1..Len(df) :
            (i < j /\ SameKey(df, i, j, TimelineCols(variant))) => df[i].line < df[j].line
  /\ (pc = "failed" /\ error = "ValueError: No objects to concatenate") =>
       \A c \in ChunkSizes : DataParts(variant, src, c, sample_set, 0) = <<>>

\* The route script has read three rows in chunks of two; the first chunk
\* was put in order by its pre-sort, and two rows have the same key and
\* timestamp.
C20_Witness ==
  /\ pc = "labels"
  /\ variant = "route"
  /\ chunksize = 2
  /\ Len(df) = 3
  /\ \E i, j \in 1..Len(df) : df[i].index < df[j].index /\ df[i].line > df[j].line
  /\ \E i, j \in 1..Len(df) : i < j /\ SameKey(df, i, j, TimelineCols(variant))

\* The modeling table without the predicted column.
WithoutProb(s) ==
  [i \in 1..Len(s) |-> [f \in DOMAIN s[i] \ {"prob_30dias"} |-> s[i][f]]]

\* The probabilities of the modeling table, row by row.
ProbColumn(s) == [i \in 1..Len(s) |-> s[i].prob_30dias]

\* Sections 2-5 of the client script carried out again on the same rows,
\* sample and chunk size.
SecondRun ==
  FeatureRows("client",
              SurvivalLabels("client", Ingested("client", src, chunksize, sample_set)))

\* The file of a second run whose model gives the rows the probabilities p.
SecondRunFile(p) ==
  LET m == ModelRows(SecondRun)
  IN ExportRows("client", SecondRun,
                [i \in 1..Len(m) |-> m[i] @@ [prob_30dias |-> p[i]]])

====
